---- MODULE Spec2Model ----
(***************************************************************************)
(* A model of impulcifer.py: the pipeline that turns a multitrack sine     *)
(* sweep recording into head-related impulse responses.                    *)
(*                                                                         *)
(* Conventions.  Arrays are sequences; Python's 0-based index k is the     *)
(* TLA+ index k+1, and the operators below take and return Python indices. *)
(* A track name such as 'FL-left' is the pair <<"FL", "left">>.  Times are *)
(* integers: the sampling rate fs is in Hz, silence_length is given in     *)
(* milliseconds (silence_ms / 1000 seconds), SPEAKER_DELAYS in             *)
(* microseconds, so that every product the code forms is an exact          *)
(* rational number.                                                        *)
(***************************************************************************)
EXTENDS Integers, Sequences, FiniteSets, TLC

VARIABLES
    pc,            \* position of the run
    err,           \* the exception that ended the run, or "none"
    speakers,      \* declared speaker order (main / split_recording / reorder_tracks)
    fs,            \* sampling rate of the recording, Hz
    silence_ms,    \* silence_length, in milliseconds
    recording,     \* the recording: one sample sequence per row
    tracks,        \* main's `recording` after split_recording, then reorder_tracks,
                   \* then normalize: [x, den, target], see Raw
    left,          \* crop_ir_head: left ear impulse response
    right,         \* crop_ir_head: right ear impulse response
    speaker,       \* crop_ir_head: speaker channel name
    cropped,       \* the cropped tracks; a track is [x |-> samples, fade |-> n], its
                   \* first n samples multiplied by the fade-in window
    rms,           \* tail_index: the decay curve, dB per window
    ir_len,        \* tail_index: length of the response the curve was computed from
    tail_ind,      \* tail_index: the returned index; main: the common cutoff
    fs_ts,         \* main: sampling rate of the test signal
    compensate_headphones,   \* main: the flag of that name
    decay,         \* main: windows for which a response stays above the noise
    loop_i,        \* main: the loop variable i of the loop the run is in
    impulse_responses,       \* main: the rows of impulse_responses
    tail_indices,  \* main: the list of that name
    files,         \* main: the WAV files written so far, [name, data]
    stages,        \* history: the stages of main entered so far
    par            \* channel-wise processing: the units of work finished so far

splitVars == <<speakers, silence_ms, recording, tracks>>

cropVars == <<left, right, speaker, cropped>>

tailVars == <<rms, ir_len, tail_ind>>

mainVars == <<fs_ts, compensate_headphones, decay, loop_i, impulse_responses, tail_indices, files>>

vars == <<pc, err, fs, splitVars, cropVars, tailVars, mainVars, stages, par>>

(***************************************************************************)
(* Bounds of the model                                                     *)
(***************************************************************************)
MaxSpeakers == 3      \* longest declared speaker order
MaxSilenceMs == 2     \* silence_length ranges over 0 .. MaxSilenceMs ms
SweepLen == 4         \* samples of the test signal

Rates == {1000, 1500, 2000}

(***************************************************************************)
(* Module constants                                                        *)
(***************************************************************************)
SPEAKER_NAMES == <<"FL", "FR", "FC", "BL", "BR", "SL", "SR">>

Ears == <<"left", "right">>

\* IR_ORDER[k] for Python index k in 0..13
IR_ORDER == [k \in 0..13 |-> <<SPEAKER_NAMES[(k \div 2) + 1], Ears[(k % 2) + 1]>>]

Recognized == {SPEAKER_NAMES[i] : i \in 1..Len(SPEAKER_NAMES)}

(***************************************************************************)
(* Python and numpy primitives                                             *)
(***************************************************************************)
Min(a, b) == IF a < b THEN a ELSE b

Max(a, b) == IF a > b THEN a ELSE b

Abs(a) == IF a < 0 THEN -a ELSE a

\* int(num / den) for den > 0: truncation toward zero
PyInt(num, den) == IF num >= 0 THEN num \div den ELSE -((-num) \div den)

\* round(num / den) for num >= 0, den > 0: Python 3 rounds halves to even
PyRound(num, den) ==
    LET q == num \div den
        r == num % den
    IN  IF 2 * r < den THEN q
        ELSE IF 2 * r > den THEN q + 1
        ELSE IF q % 2 = 0 THEN q ELSE q + 1

\* A slice bound as Python normalises it for a sequence of length n
PyBound(n, k) == IF k < 0 THEN Max(n + k, 0) ELSE Min(k, n)

\* s[a:b]
PySlice(s, a, b) ==
    LET lo == PyBound(Len(s), a)
        hi == PyBound(Len(s), b)
    IN  IF hi <= lo THEN <<>> ELSE SubSeq(s, lo + 1, hi)

\* s[a:]
PySliceFrom(s, a) ==
    LET lo == PyBound(Len(s), a)
    IN  IF Len(s) <= lo THEN <<>> ELSE SubSeq(s, lo + 1, Len(s))

\* np.zeros(n)
Zeros(n) == [i \in 1..n |-> 0]

\* len(np.nonzero(s)[0]) == 0
IsSilent(s) == \A i \in 1..Len(s) : s[i] = 0

\* An array of samples is [x, den, target]: integer rows x, each sample standing
\* for x[r][t] / den, times 10**(target_db / 20) when target is set.
Raw(rows) == [x |-> rows, den |-> 1, target |-> FALSE]

\* np.vstack(rows) succeeds iff there is a row and all rows have one length
CanVstack(rows) ==
    /\ Len(rows) > 0
    /\ \A i \in 1..Len(rows) : Len(rows[i]) = Len(rows[1])

(***************************************************************************)
(* main: the order of its stages.  StageAfter(stage, hp) is the stage that *)
(* follows `stage` in the text of main, hp being compensate_headphones.    *)
(***************************************************************************)
StageAfterMut(stage, hp) ==
    CASE stage = "check" -> "split"
      [] stage = "split" -> "reorder"
      [] stage = "reorder" -> "deconv"
      [] stage = "deconv" -> "crop_heads"
      [] stage = "crop_heads" -> "tail_index"
      [] stage = "tail_index" -> "crop_tails"
      [] stage = "crop_tails" -> "normalize"
      [] stage = "normalize" -> IF hp THEN "compensate" ELSE "write_hrir"
      [] stage = "compensate" -> "write_hrir"
      [] stage = "write_hrir" -> "write_hesuvi"
      [] OTHER -> "done"

StageAfter(stage, hp) ==
    CASE stage = "check" -> "split"               \* lines 503-528
      [] stage = "split" -> "reorder"             \* line 531
      [] stage = "reorder" -> "normalize"         \* line 534
      [] stage = "normalize" -> "deconv"          \* lines 537-547
      [] stage = "deconv" -> "crop_heads"         \* lines 549-570
      [] stage = "crop_heads" -> "tail_index"     \* lines 572-597
      [] stage = "tail_index" -> "crop_tails"     \* lines 599-610
      [] stage = "crop_tails" -> IF hp THEN "compensate" ELSE "write_hrir"   \* 611-634
      [] stage = "compensate" -> "write_hrir"     \* lines 634-681
      [] stage = "write_hrir" -> "write_hesuvi"   \* line 684
      [] OTHER -> "done"                          \* lines 686-690

(***************************************************************************)
(* split_recording                                                         *)
(***************************************************************************)
\* silence_length * fs != int(silence_length * fs)
SilenceNotWholeMut(ms, rate) == FALSE

SilenceNotWhole(ms, rate) == ms * rate # 1000 * PyInt(ms * rate, 1000)

\* the tracks list built by the two nested loops, before np.vstack
SplitTracks(rec, test_len, spk, rate, ms) ==
    LET silence_length == PyInt(ms * rate, 1000)
        n_columns == PyRound(Len(spk), Len(rec) \div 2)
        rec_cropped == [r \in 1..Len(rec) |-> PySliceFrom(rec[r], silence_length)]
        column_size == silence_length + test_len
        \* columns[k][r] == recording[r, k*column_size:(k+1)*column_size]
        column(k, r) == PySlice(rec_cropped[r], k * column_size, (k + 1) * column_size)
        n_tracks == (Len(rec) \div 2) * n_columns * 2
    IN  [t \in 1..n_tracks |->
            LET pair == (t - 1) \div (2 * n_columns)       \* i \div 2 of the while loop
                k == ((t - 1) % (2 * n_columns)) \div 2    \* column
                ear == (t - 1) % 2
            IN  column(k, 2 * pair + ear + 1)]

\* [err |-> exception or "none", tracks |-> the returned array]
split_recording(rec, test_len, spk, rate, ms) ==
    IF SilenceNotWhole(ms, rate)
    THEN [err |-> "SilenceLength", tracks |-> <<>>]
    ELSE LET t == SplitTracks(rec, test_len, spk, rate, ms)
         IN  IF CanVstack(t) THEN [err |-> "none", tracks |-> t]
             ELSE [err |-> "Vstack", tracks |-> <<>>]

(***************************************************************************)
(* reorder_tracks                                                          *)
(***************************************************************************)
\* track_names: two names per declared speaker
TrackNames(spk) ==
    [t \in 1..(2 * Len(spk)) |-> <<spk[(t + 1) \div 2], Ears[((t - 1) % 2) + 1]>>]

\* track_names.index(ch), as a Python index
NameIndex(names, ch) ==
    (CHOOSE i \in 1..Len(names) :
        /\ names[i] = ch
        /\ \A j \in 1..(i - 1) : names[j] # ch) - 1

ReorderSlotMut(trk, names, ch) ==
    IF \A i \in 1..Len(names) : names[i] # ch
    THEN Zeros(Len(trk[1]))
    ELSE trk[Len(names) - NameIndex(names, ch)]

\* one iteration of the loop over IR_ORDER
ReorderSlot(trk, names, ch) ==
    IF \A i \in 1..Len(names) : names[i] # ch
    THEN Zeros(Len(trk[1]))
    ELSE trk[NameIndex(names, ch) + 1]

\* [err, tracks]; tracks[k + 1] is row k of the result
reorder_tracks(trk, spk) ==
    LET names == TrackNames(spk)
    IN  IF \E k \in 0..13 :
              /\ \E i \in 1..Len(names) : names[i] = IR_ORDER[k]
              /\ NameIndex(names, IR_ORDER[k]) + 1 > Len(trk)
        THEN [err |-> "IndexError", tracks |-> <<>>]
        ELSE [err |-> "none",
              tracks |-> [k1 \in 1..14 |-> ReorderSlot(trk, names, IR_ORDER[k1 - 1])]]

(***************************************************************************)
(* Inputs of the splitter: a recording laid out as the docstring of        *)
(* split_recording describes.  The j-th declared speaker's sweep, as ear e *)
(* recorded it, is the segment Segment(j, e): SweepLen samples that are    *)
(* unique to (j, e), followed by the silence between sweeps.               *)
(***************************************************************************)
Labels == Recognized \cup {"XX"}

\* duplicate-free lists of labels, 1 .. MaxSpeakers long
Orders ==
    UNION {{s \in [1..n -> Labels] : \A i, j \in 1..n : i # j => s[i] # s[j]} :
           n \in 1..MaxSpeakers}

Sample(j, e, t) == ((j - 1) * 2 + e) * SweepLen + t

Segment(j, e, silence) ==
    [t \in 1..(SweepLen + silence) |-> IF t <= SweepLen THEN Sample(j, e, t) ELSE 0]

RECURSIVE Concat(_, _, _)
Concat(f(_), from, to) == IF from > to THEN <<>> ELSE f(from) \o Concat(f, from + 1, to)

\* n_pairs microphone pairs, each recording n_cols speakers one after another;
\* segment(j, e) is what ear e recorded of the j-th declared speaker
LayoutOf(segment(_, _), n_pairs, n_cols, silence) ==
    [r \in 1..(2 * n_pairs) |->
        LET p == (r - 1) \div 2
            e == (r - 1) % 2
            seg(k) == segment(p * n_cols + k, e)
        IN  Zeros(silence) \o Concat(seg, 1, n_cols)]

Layout(n_pairs, n_cols, silence) ==
    LayoutOf(LAMBDA j, e : Segment(j, e, silence), n_pairs, n_cols, silence)

\* no channel has been processed out of the order of main
IdlePar == par = [deconv |-> {}, heads |-> {}, tails |-> {}]

IdleSplit ==
    speakers = <<>> /\ silence_ms = 0 /\ recording = <<>> /\ tracks = Raw(<<>>)

IdleCrop == left = <<>> /\ right = <<>> /\ speaker = "" /\ cropped = <<>>

IdleTail == rms = <<>> /\ ir_len = 0 /\ tail_ind = 0

IdleMain ==
    /\ fs_ts = fs /\ compensate_headphones = FALSE /\ decay = 0 /\ loop_i = 0
    /\ impulse_responses = <<>> /\ tail_indices = <<>> /\ files = <<>>

\* the history of stages: a stage is recorded when the run enters it
Enter(stage) ==
    stages' = IF stages # <<>> /\ stages[Len(stages)] = stage THEN stages
              ELSE Append(stages, stage)

SplitInit ==
    /\ pc = "split"
    /\ err = "none"
    /\ speakers \in Orders
    /\ fs \in Rates
    /\ silence_ms \in 0..MaxSilenceMs
    /\ \E n_pairs \in 1..Len(speakers) :
          /\ Len(speakers) % n_pairs = 0
          /\ recording = Layout(n_pairs, Len(speakers) \div n_pairs,
                                PyInt(silence_ms * fs, 1000))
    /\ tracks = Raw(<<>>)
    /\ stages = <<>> /\ IdlePar
    /\ IdleCrop /\ IdleTail /\ IdleMain

\* main, line 531
SplitRecording ==
    /\ pc = "split"
    /\ LET r == split_recording(recording, SweepLen, speakers, fs, silence_ms)
       IN  /\ err' = r.err
           /\ tracks' = Raw(r.tracks)
           /\ pc' = IF r.err = "none" THEN StageAfter("split", compensate_headphones)
                     ELSE "error"
    /\ Enter("split")
    /\ UNCHANGED <<speakers, fs, silence_ms, recording, cropVars, tailVars, mainVars>>
    /\ UNCHANGED par

\* main, line 534
ReorderTracks ==
    /\ pc = "reorder"
    /\ LET r == reorder_tracks(tracks.x, speakers)
       IN  /\ err' = r.err
           /\ tracks' = Raw(r.tracks)
           /\ pc' = IF r.err = "none" THEN StageAfter("reorder", compensate_headphones)
                     ELSE "error"
    /\ Enter("reorder")
    /\ UNCHANGED <<speakers, fs, silence_ms, recording, cropVars, tailVars, mainVars>>
    /\ UNCHANGED par

SplitNext == SplitRecording \/ ReorderTracks

SpecSplit == SplitInit /\ [][SplitNext]_vars

(***************************************************************************)
(* Claims about the splitter and the reorder step                          *)
(***************************************************************************)
AllRecognized == \A i \in 1..Len(speakers) : speakers[i] \in Recognized

SilenceSamples == PyInt(silence_ms * fs, 1000)

\* what the canonical slot k must hold: the segment of the declared speaker
\* of that name as that ear recorded it, or silence
CanonicalSlot(k) ==
    LET name == SPEAKER_NAMES[(k \div 2) + 1]
        declared == {j \in 1..Len(speakers) : speakers[j] = name}
    IN  IF declared = {} THEN Zeros(SweepLen + SilenceSamples)
        ELSE Segment(CHOOSE j \in declared : TRUE, k % 2, SilenceSamples)

\* C1: for a duplicate-free declared order of recognized labels (and a whole
\* number of silence samples), split_recording followed by reorder_tracks
\* does not fail and yields exactly 14 tracks in the canonical order: the
\* slot of a declared speaker and ear holds that speaker's recorded segment
\* for that ear, the slots of an absent speaker hold all-zero tracks.
C1_SplitReorderCanonical ==
    (AllRecognized /\ (silence_ms * fs) % 1000 = 0) =>
        /\ pc # "error"
        /\ pc = "reorder" => Len(tracks.x) = 2 * Len(speakers)
        /\ pc = "normalize" =>
              /\ Len(tracks.x) = 14
              /\ \A k \in 0..13 : tracks.x[k + 1] = CanonicalSlot(k)

\* a declared order that is not the canonical one, two speakers sharing a
\* microphone pair, reordered
C1_Witness ==
    /\ pc = "normalize"
    /\ AllRecognized
    /\ Len(speakers) = 3
    /\ speakers[1] = "SR" /\ speakers[2] = "FL" /\ speakers[3] = "BL"
    /\ Len(recording) = 2
    /\ silence_ms = 1 /\ fs = 2000
    /\ tracks.x[1] = Segment(2, 0, 2)
    /\ tracks.x[14] = Segment(1, 1, 2)
    /\ IsSilent(tracks.x[3])

HasUnrecognized == \E i \in 1..Len(speakers) : speakers[i] \notin Recognized

\* C2: with a label in the declared order that is not one of the seven
\* recognized names, the reorder step ends in an unsupported-channel error
\* and returns no 14-track result.
C2_UnrecognizedLabelFails ==
    (HasUnrecognized /\ pc \notin {"split", "reorder"} /\ err # "SilenceLength") =>
        (pc = "error" /\ err = "UnsupportedChannel")

\* C10: split_recording fails with the silence-length error, returning no
\* tracks, exactly when silence_length * fs is not a whole number of samples.
C10_SilenceLengthError ==
    pc # "split" =>
        /\ (err = "SilenceLength") <=> ((silence_ms * fs) % 1000 # 0)
        /\ err = "SilenceLength" => (pc = "error" /\ tracks.x = <<>>)
        /\ (silence_ms * fs) % 1000 = 0 => pc \in {"reorder", "normalize"}

\* 1 ms of silence at 1500 Hz is one sample and a half
C10_Witness ==
    /\ pc = "error" /\ err = "SilenceLength"
    /\ silence_ms = 1 /\ fs = 1500

\* 2 ms of silence at 1500 Hz are three samples
C10_WitnessWhole ==
    /\ pc = "reorder" /\ err = "none"
    /\ silence_ms = 2 /\ fs = 1500

(***************************************************************************)
(* crop_ir_head                                                            *)
(***************************************************************************)
\* SPEAKER_DELAYS, in microseconds
SPEAKER_DELAYS ==
    [s \in Recognized |->
        CASE s \in {"FL", "FR", "BL", "BR"} -> 107
          [] s = "FC" -> 214
          [] OTHER -> 0]

\* speaker[1], the second letter of the speaker name
Side(s) ==
    CASE s \in {"FL", "BL", "SL"} -> "L"
      [] s \in {"FR", "BR", "SR"} -> "R"
      [] OTHER -> "C"

\* np.max(x), for a non-empty x
SeqMax(x) == CHOOSE v \in {x[i] : i \in 1..Len(x)} : \A i \in 1..Len(x) : x[i] <= v

\* The local maxima scipy.signal.find_peaks considers, as Python indices: the
\* middle of every run of equal samples that has a smaller sample on each
\* side; the first and the last sample are never peaks.
LocalMaxima(x) ==
    {(i + j) \div 2 : <<i, j>> \in
        {e \in (1..(Len(x) - 2)) \X (1..(Len(x) - 2)) :
            /\ e[1] <= e[2]
            /\ x[e[1]] < x[e[1] + 1]
            /\ \A m \in e[1]..e[2] : x[m + 1] = x[e[1] + 1]
            /\ x[e[2] + 2] < x[e[2] + 1]}}

\* find_peaks(x / np.max(x), height=0.1)[0][0] for np.max(x) > 0; -1 when no
\* peak qualifies (peak_left[0] then raises IndexError)
FirstPeak(x) ==
    LET peaks == {m \in LocalMaxima(x) : 10 * x[m + 1] >= SeqMax(x)}
    IN  IF peaks = {} THEN -1 ELSE CHOOSE m \in peaks : \A k \in peaks : m <= k

\* head = head_ms * fs // 1000, head_ms = 1
HeadSamples(rate) == (1 * rate) \div 1000

\* delay = int(np.round(SPEAKER_DELAYS[speaker] / 1000 * fs)) + head
Delay(spk, rate) == PyRound(SPEAKER_DELAYS[spk] * rate, 1000000) + HeadSamples(rate)

\* x[:head] *= window.  The window has head samples; numpy can multiply it
\* into a shorter slice only by broadcasting a window of length one.
CanFade(x, head) == Len(x) >= head \/ head = 1

Faded(x, head) == [x |-> x, fade |-> Min(head, Len(x))]

\* [err, left, right]
crop_ir_head(l, r, spk, rate) ==
    LET peak_left == FirstPeak(l)
        peak_right == FirstPeak(r)
        itd == Abs(peak_left - peak_right)
        head == HeadSamples(rate)
        delay == Delay(spk, rate)
        failed(e) == [err |-> e, left |-> <<>>, right |-> <<>>]
        done(l2, r2) ==
            IF CanFade(l2, head) /\ CanFade(r2, head)
            THEN [err |-> "none", left |-> Faded(l2, head), right |-> Faded(r2, head)]
            ELSE failed("Broadcast")
    IN  IF peak_left = -1 \/ peak_right = -1 THEN failed("IndexError")
        ELSE IF peak_left < peak_right
        THEN IF Side(spk) = "R" THEN failed("LeftRightOrder")
             ELSE done(PySliceFrom(l, peak_left - delay),
                       PySliceFrom(r, peak_right - (delay + itd)))
        ELSE IF Side(spk) = "L" THEN failed("LeftRightOrder")
             ELSE done(PySliceFrom(l, peak_left - (delay + itd)),
                       PySliceFrom(r, peak_right - delay))

(***************************************************************************)
(* Inputs of the head aligner: responses of IrLen samples with the direct  *)
(* sound (20, followed by 5) at index p and, before it, at most one early  *)
(* sample of height h at index q: h = 2 is 10 % of the maximum and         *)
(* qualifies as a peak, h = 1 does not.                                    *)
(***************************************************************************)
IrLen == 8

CropRates == {1000, 2000, 5000}

Response(p, q, h) ==
    [t \in 1..IrLen |->
        CASE t = p + 1 -> 20
          [] t = p + 2 -> 5
          [] t = q + 1 -> h
          [] OTHER -> 0]

Responses ==
    {Response(p, -1, 0) : p \in 0..(IrLen - 1)}
        \cup {Response(pq[1], pq[2], h) :
                pq \in {e \in (0..(IrLen - 1)) \X (0..(IrLen - 1)) : e[2] < e[1] - 1},
                h \in {1, 2}}

CropInit ==
    /\ pc = "start"
    /\ err = "none"
    /\ fs \in CropRates
    /\ left \in Responses
    /\ right \in Responses
    /\ speaker \in Recognized
    /\ cropped = <<>>
    /\ IdleSplit /\ IdleTail /\ IdleMain /\ stages = <<>> /\ IdlePar

\* main, line 588
CropIrHead ==
    /\ pc = "start"
    /\ LET r == crop_ir_head(left, right, speaker, fs)
       IN  /\ err' = r.err
           /\ cropped' = IF r.err = "none" THEN <<r.left, r.right>> ELSE <<>>
           /\ pc' = IF r.err = "none" THEN "cropped" ELSE "error"
    /\ UNCHANGED <<fs, left, right, speaker, splitVars, tailVars, mainVars, stages>>
    /\ UNCHANGED par

CropNext == CropIrHead

SpecCrop == CropInit /\ [][CropNext]_vars

(***************************************************************************)
(* Claims about the head aligner                                           *)
(***************************************************************************)
BothPeaks == FirstPeak(left) # -1 /\ FirstPeak(right) # -1

\* the ear that the first peak reaches earlier is not on the speaker's side
Contradiction ==
    \/ FirstPeak(left) < FirstPeak(right) /\ Side(speaker) = "R"
    \/ FirstPeak(right) < FirstPeak(left) /\ Side(speaker) = "L"

\* C3: crop_ir_head raises the left/right delay error exactly when the ear
\* with the earlier first peak is on the opposite side from the side the
\* speaker label implies; in particular not for a centre speaker and not for
\* two peaks at the same sample.
C3_ErrorIffContradiction ==
    (pc # "start" /\ BothPeaks) => ((err = "LeftRightOrder") <=> Contradiction)

\* in `out`, exactly d samples precede the sample that was at index p of `in`:
\* from index d on, out is in from index p on
PeakAt(out, in, p, d) ==
    /\ Len(out.x) - d = Len(in) - p
    /\ \A m \in 0..(Len(in) - p - 1) : out.x[d + 1 + m] = in[p + 1 + m]

NearIsLeft == FirstPeak(left) < FirstPeak(right)

Itd == Abs(FirstPeak(left) - FirstPeak(right))

\* C4: in the output of an accepted pair exactly targetDelay samples precede
\* the near ear's peak and targetDelay + ITD samples precede the far ear's
\* peak.
C4_PeaksAtTargetDelay ==
    pc = "cropped" =>
        IF NearIsLeft
        THEN /\ PeakAt(cropped[1], left, FirstPeak(left), Delay(speaker, fs))
             /\ PeakAt(cropped[2], right, FirstPeak(right), Delay(speaker, fs) + Itd)
        ELSE /\ PeakAt(cropped[1], left, FirstPeak(left), Delay(speaker, fs) + Itd)
             /\ PeakAt(cropped[2], right, FirstPeak(right), Delay(speaker, fs))

(***************************************************************************)
(* impulse_response_decay and tail_index                                   *)
(***************************************************************************)
\* window_size = fs // 1000 * window_size_ms, window_size_ms = 1
WindowSize(rate) == (rate \div 1000) * 1

\* n = len(impulse_response) // window_size: the number of RMS windows, which
\* is the length of the decay curve
NumWindows(len, rate) == len \div WindowSize(rate)

\* The levels of a decay curve, dB.  The curve itself (RMS, logarithm, 200
\* passes of the smoothing filter) is real arithmetic that is not computed
\* here: impulse_response_decay returns some curve of NumWindows levels.
Levels == {-6, -4, -2, 0}

DecayCurves(len, rate) == [1..NumWindows(len, rate) -> Levels]

\* int(np.argmax(rms)): the first index of the largest level
PeakIndex(curve) ==
    (CHOOSE i \in 1..Len(curve) :
        /\ \A j \in 1..Len(curve) : curve[j] <= curve[i]
        /\ \A j \in 1..(i - 1) : curve[j] < curve[i]) - 1

\* the value of i after `for i in range(peak_index+1, len(rms))` with its
\* break at the first rise; -1 when the range is empty and i is never bound
LoopIndex(curve) ==
    LET peak_index == PeakIndex(curve)
        rises == {i \in (peak_index + 1)..(Len(curve) - 1) : curve[i + 1] > curve[i]}
    IN  IF peak_index + 1 > Len(curve) - 1 THEN -1
        ELSE IF rises = {} THEN Len(curve) - 1
        ELSE CHOOSE i \in rises : \A j \in rises : i <= j

\* np.argmax(rms < noise_floor): the first index below the noise floor, 0 when
\* there is none
FirstBelow(curve, noise_floor) ==
    LET below == {k \in 0..(Len(curve) - 1) : curve[k + 1] < noise_floor}
    IN  IF below = {} THEN 0 ELSE CHOOSE k \in below : \A j \in below : k <= j

\* tail_index(rms, rms_window_size=fs / 1000): [err, tail_ind]
tail_index(curve, rate) ==
    LET i == LoopIndex(curve)
    IN  IF i = -1 THEN [err |-> "UnboundLocalError", tail_ind |-> 0]
        ELSE LET noise_floor == curve[i + 1] + 3
                 tail == FirstBelow(curve, noise_floor)
             IN  [err |-> "none", tail_ind |-> PyInt(tail * rate, 1000)]

(***************************************************************************)
(* Inputs of tail_index: the decay curve of a response of ir_len samples   *)
(***************************************************************************)
MaxWindows == 4

TailInit ==
    /\ pc = "start"
    /\ err = "none"
    /\ fs \in Rates
    /\ ir_len \in WindowSize(fs)..(MaxWindows * WindowSize(fs) + WindowSize(fs) - 1)
    /\ rms \in DecayCurves(ir_len, fs)
    /\ tail_ind = 0
    /\ IdleSplit /\ IdleCrop /\ IdleMain /\ stages = <<>> /\ IdlePar

\* main, line 610
TailIndex ==
    /\ pc = "start"
    /\ LET r == tail_index(rms, fs)
       IN  /\ err' = r.err
           /\ tail_ind' = r.tail_ind
           /\ pc' = IF r.err = "none" THEN "done" ELSE "error"
    /\ UNCHANGED <<fs, rms, ir_len, splitVars, cropVars, mainVars, stages>>
    /\ UNCHANGED par

TailNext == TailIndex

SpecTail == TailInit /\ [][TailNext]_vars

(***************************************************************************)
(* Claims about tail_index                                                 *)
(***************************************************************************)
\* C5: the computed tail index is at or after the peak-energy window and is
\* smaller than the length of the response the curve was computed from.
C5_TailIndexBounds ==
    pc = "done" =>
        /\ tail_ind >= PeakIndex(rms) * WindowSize(fs)
        /\ tail_ind < ir_len

(***************************************************************************)
(* normalize                                                               *)
(***************************************************************************)
\* the samples of a multichannel array x (rows of one length), flattened
Flat(x) == [k \in 1..(Len(x) * Len(x[1])) |->
               x[((k - 1) \div Len(x[1])) + 1][((k - 1) % Len(x[1])) + 1]]

\* x[np.unravel_index(np.argmax(x), x.shape)]: the largest sample
ArgMaxValue(x) == SeqMax(Flat(x))

\* max(|x|) over all channels
PeakMagnitude(x) == SeqMax([k \in 1..Len(Flat(x)) |-> Abs(Flat(x)[k])])

\* normalize(x, target_db): every sample divided by np.abs(x[arg_max]) and
\* multiplied by 10**(target_db / 20).  x are the integer rows of the argument;
\* den = 0 in the result is a division by zero, which numpy answers with inf
\* and nan samples.
normalize(x) == [x |-> x, den |-> Abs(ArgMaxValue(x)), target |-> TRUE]

(***************************************************************************)
(* Inputs of normalize: NormChannels channels of NormLen samples           *)
(***************************************************************************)
NormChannels == 2

NormLen == 2

SampleValues == {-2, -1, 0, 1, 2}

NormInit ==
    /\ pc = "start"
    /\ err = "none"
    /\ fs = 1000
    /\ recording \in [1..NormChannels -> [1..NormLen -> SampleValues]]
    /\ speakers = <<>> /\ silence_ms = 0 /\ tracks = Raw(<<>>)
    /\ IdleCrop /\ IdleTail /\ IdleMain /\ stages = <<>> /\ IdlePar

\* main, line 537
Normalize ==
    /\ pc = "start"
    /\ tracks' = normalize(recording)
    /\ pc' = "done"
    /\ UNCHANGED <<err, fs, speakers, silence_ms, recording, cropVars, tailVars,
                   mainVars, stages>>
    /\ UNCHANGED par

NormNext == Normalize

SpecNorm == NormInit /\ [][NormNext]_vars

(***************************************************************************)
(* Claims about normalize                                                  *)
(***************************************************************************)
\* C9: for a set with at least one non-zero sample, normalize divides by the
\* sample of largest absolute value, so that afterwards the largest absolute
\* sample value equals the target level 10**(target_db / 20): the largest
\* |x| / den is 1.
C9_PeakReachesTarget ==
    (pc = "done" /\ \E r \in 1..Len(recording) : ~IsSilent(recording[r])) =>
        /\ tracks.den > 0
        /\ PeakMagnitude(tracks.x) = tracks.den

(***************************************************************************)
(* main.  Reading and writing WAV files, plotting and the frequency        *)
(* response fitter are collaborators outside this model: a file is         *)
(* recorded as written, plots are not made.  `measure` is False.           *)
(*                                                                         *)
(* A recorded sweep is represented by the response it was played through:  *)
(* the samples of a segment of the recording are the samples of that       *)
(* response, and deconvolution recovers them.                              *)
(***************************************************************************)
\* len(np.nonzero(track)[0]) == 0 for a sample row of the array a: with
\* a.den = 0 every sample is inf or nan, which is not zero
RowSilent(a, row) == a.den # 0 /\ IsSilent(row)

\* deconv(track, test_signal_zero_padded, 'inverse_filter', fs).  The full
\* convolution with the time-reversed sweep puts the response's sample k at
\* index len(test_signal) - 1 + k; a zero is appended and the window
\* h[len(test_signal) : 2*len(test_signal) + 1] is cut out of it: the response
\* from its sample 1 on, then the appended zero.  (The positive gain of the
\* inverse filter is left out.)
deconv(track) ==
    IF Len(track) = 0 THEN <<>> ELSE SubSeq(track, 2, Len(track)) \o <<0>>

\* one iteration of the loop at lines 551-566
DeconvTrack(a, row) == IF RowSilent(a, row) THEN Zeros(Len(row)) ELSE deconv(row)

CropPairMut(a, l, r, spk, rate) ==
    IF ~RowSilent(a, l) /\ ~RowSilent(a, r)
    THEN IF a.den = 0 THEN [err |-> "IndexError", left |-> <<>>, right |-> <<>>]
         ELSE crop_ir_head(l, r, spk, rate)
    ELSE [err |-> "none", left |-> Faded(l, 0), right |-> Faded(r, 0)]

\* one iteration of the loop at lines 575-597: [err, left, right].  A response
\* of nan samples (a.den = 0) has no peak: peak_left[0] raises IndexError.
CropPair(a, l, r, spk, rate) ==
    IF ~RowSilent(a, l) /\ ~RowSilent(a, r)
    THEN IF a.den = 0 THEN [err |-> "IndexError", left |-> <<>>, right |-> <<>>]
         ELSE crop_ir_head(l, r, spk, rate)
    ELSE IF RowSilent(a, l) /\ RowSilent(a, r)
    THEN [err |-> "none", left |-> Faded(l, 0), right |-> Faded(r, 0)]
    ELSE [err |-> "PairSilence", left |-> <<>>, right |-> <<>>]

\* impulse_response_decay(track, fs, window_size_ms=1) of a response that
\* stays above the noise for k windows: 0 dB for k windows, then -6 dB.
\* np.split into no windows fails.
impulse_response_decay(len, rate, k) ==
    IF NumWindows(len, rate) = 0 THEN [err |-> "DecayError", rms |-> <<>>]
    ELSE [err |-> "none",
          rms |-> [j \in 1..NumWindows(len, rate) |-> IF j <= k THEN 0 ELSE -6]]

\* one iteration of the loop at lines 602-610 for a non-silent track
TailOf(track, rate, k) ==
    LET d == impulse_response_decay(Len(track.x), rate, k)
    IN  IF d.err # "none" THEN [err |-> d.err, tail_ind |-> 0]
        ELSE tail_index(d.rms, rate)

\* tail_indices[-1]: the last index found
ListMaxMut(s) == s[Len(s)]

\* max(tail_indices), for a non-empty list
ListMax(s) == SeqMax(s)

\* cropped[i][:tail_ind]
CropTail(track, cut) ==
    LET x == PySlice(track.x, 0, cut)
    IN  [x |-> x, fade |-> Min(track.fade, Len(x))]

\* the rows of np.vstack(cropped); eq lists the equalization filters
\* convolved into the row since
Rows(crp) == [k \in 1..Len(crp) |-> [x |-> crp[k].x, fade |-> crp[k].fade, eq |-> <<>>]]

ApplyEqMut(rows, name) ==
    [k \in 1..Len(rows) |->
        LET j == k - 1
        IN  IF (name = "Left" /\ j % 2 = 0) \/ (name = "Right" /\ j % 2 = 1)
            THEN rows[k]
            ELSE [rows[k] EXCEPT !.eq = Append(@, name)]]

\* the loop at lines 675-679 for the filter `name`: rows of odd index are
\* skipped for 'Left', rows of even index for 'Right'
ApplyEq(rows, name) ==
    [k \in 1..Len(rows) |->
        LET j == k - 1
        IN  IF (name = "Left" /\ j % 2 = 1) \/ (name = "Right" /\ j % 2 = 0)
            THEN rows[k]
            ELSE [rows[k] EXCEPT !.eq = Append(@, name)]]

hesuvi_order ==
    << <<"FL", "left">>, <<"FL", "right">>, <<"SL", "left">>, <<"SL", "right">>,
       <<"BL", "left">>, <<"BL", "right">>, <<"FC", "left">>, <<"FR", "right">>,
       <<"FR", "left">>, <<"SR", "right">>, <<"SR", "left">>, <<"BR", "right">>,
       <<"BR", "left">>, <<"FC", "right">> >>

\* IR_ORDER.index(ch)
IrOrderIndex(ch) == CHOOSE k \in 0..13 : IR_ORDER[k] = ch

\* impulse_responses[indices, :]
HesuviRows(rows) == [k \in 1..14 |-> rows[IrOrderIndex(hesuvi_order[k]) + 1]]

(***************************************************************************)
(* Inputs of main: a stereo recording of the declared speakers one after   *)
(* another at 1 ms of silence.  Each ear of each declared speaker recorded *)
(* either nothing or a response whose direct sound (20, followed by 5) is  *)
(* at index p of the segment.                                              *)
(***************************************************************************)
MaxMainSpeakers == 2

MaxDecay == 4

MainLabels == {"FL", "FR", "FC"}

MainOrders ==
    UNION {{s \in [1..n -> MainLabels] : \A j, k \in 1..n : j # k => s[j] # s[k]} :
           n \in 1..MaxMainSpeakers}

\* p = -1: nothing recorded
MainSegment(p, len) ==
    [t \in 1..len |->
        CASE p = -1 -> 0
          [] t = p + 1 -> 20
          [] t = p + 2 -> 5
          [] OTHER -> 0]

\* <<p of the left ear, p of the right ear>>
PairShapes(len) == {<<-1, -1>>, <<-1, 2>>, <<2, 3>>, <<3, 2>>, <<len - 1, len - 1>>}

MainInit ==
    /\ pc = "check"
    /\ err = "none"
    /\ speakers \in MainOrders
    /\ silence_ms = 1
    /\ fs \in {1000, 1500}
    /\ fs_ts \in IF fs = 1000 THEN {1000, 2000} ELSE {fs}
    /\ compensate_headphones \in BOOLEAN
    /\ decay \in 1..MaxDecay
    /\ LET silence == PyInt(silence_ms * fs, 1000)
           len == SweepLen + silence
       IN  \E shape \in [1..Len(speakers) -> PairShapes(len)] :
              recording = LayoutOf(LAMBDA j, e : MainSegment(shape[j][e + 1], len),
                                   1, Len(speakers), silence)
    /\ tracks = Raw(<<>>)
    /\ loop_i = 0
    /\ impulse_responses = <<>>
    /\ cropped = <<>>
    /\ tail_indices = <<>>
    /\ tail_ind = 0
    /\ files = <<>>
    /\ stages = <<>> /\ IdlePar
    /\ left = <<>> /\ right = <<>> /\ speaker = ""
    /\ rms = <<>> /\ ir_len = 0

\* the exception is swallowed and the run goes on to the export
FailMut(e) == pc' = "write_hrir" /\ err' = e

\* raise: the exception leaves main
Fail(e) == pc' = "error" /\ err' = e

\* lines 503-528
CheckRates ==
    /\ pc = "check"
    /\ IF fs # fs_ts THEN Fail("RateMismatch")
       ELSE pc' = StageAfter("check", compensate_headphones) /\ err' = err
    /\ UNCHANGED <<fs, splitVars, cropVars, tailVars, mainVars, stages>>
    /\ UNCHANGED par

\* lines 536-547
NormalizeRecording ==
    /\ pc = "normalize"
    /\ tracks' = normalize(tracks.x)
    /\ files' = Append(files, [name |-> "preprocessed.wav", data |-> tracks'.x])
    /\ pc' = StageAfter("normalize", compensate_headphones)
    /\ Enter("normalize")
    /\ UNCHANGED <<err, fs, speakers, silence_ms, recording, cropVars, tailVars, fs_ts,
                   compensate_headphones, decay, loop_i, impulse_responses, tail_indices>>
    /\ UNCHANGED par

\* lines 549-570: one iteration; after the last, responses.wav is written
Deconvolve ==
    /\ pc = "deconv"
    /\ LET irs == IF loop_i = 0 THEN <<>> ELSE impulse_responses
           row == tracks.x[loop_i + 1]
       IN  impulse_responses' = Append(irs, DeconvTrack(tracks, row))
    /\ IF loop_i + 1 < Len(tracks.x)
       THEN /\ loop_i' = loop_i + 1
            /\ pc' = pc
            /\ files' = files
       ELSE /\ loop_i' = 0
            /\ pc' = StageAfter("deconv", compensate_headphones)
            /\ files' = Append(files, [name |-> "responses.wav",
                                       data |-> impulse_responses'])
    /\ Enter("deconv")
    /\ UNCHANGED <<err, fs, splitVars, cropVars, tailVars, fs_ts,
                   compensate_headphones, decay, tail_indices>>
    /\ UNCHANGED par

\* lines 572-597: one iteration
CropHeads ==
    /\ pc = "crop_heads"
    /\ LET r == CropPair(tracks, impulse_responses[loop_i + 1],
                         impulse_responses[loop_i + 2],
                         SPEAKER_NAMES[(loop_i \div 2) + 1], fs)
       IN  IF r.err # "none"
           THEN /\ Fail(r.err)
                /\ UNCHANGED <<cropped, loop_i>>
           ELSE /\ cropped' = cropped \o <<r.left, r.right>>
                /\ err' = err
                /\ IF loop_i + 2 < Len(impulse_responses)
                   THEN loop_i' = loop_i + 2 /\ pc' = pc
                   ELSE loop_i' = 0 /\ pc' = StageAfter("crop_heads", compensate_headphones)
    /\ Enter("crop_heads")
    /\ UNCHANGED <<fs, splitVars, left, right, speaker, tailVars, fs_ts,
                   compensate_headphones, decay, impulse_responses, tail_indices, files>>
    /\ UNCHANGED par

\* lines 599-610: one iteration
TailIndices ==
    /\ pc = "tail_index"
    /\ LET track == cropped[loop_i + 1]
           r == IF IsSilent(track.x) THEN [err |-> "none", tail_ind |-> 0]
                ELSE TailOf(track, fs, decay)
       IN  IF r.err # "none"
           THEN /\ Fail(r.err)
                /\ UNCHANGED <<tail_indices, loop_i>>
           ELSE /\ tail_indices' = IF IsSilent(track.x) THEN tail_indices
                                   ELSE Append(tail_indices, r.tail_ind)
                /\ err' = err
                /\ IF loop_i + 1 < Len(cropped)
                   THEN loop_i' = loop_i + 1 /\ pc' = pc
                   ELSE loop_i' = 0 /\ pc' = StageAfter("tail_index", compensate_headphones)
    /\ Enter("tail_index")
    /\ UNCHANGED <<fs, splitVars, cropVars, tailVars, fs_ts, compensate_headphones,
                   decay, impulse_responses, files>>
    /\ UNCHANGED par

\* lines 611-615
CropTails ==
    /\ pc = "crop_tails"
    /\ IF tail_indices = <<>>
       THEN /\ Fail("EmptyMax")
            /\ UNCHANGED <<tail_ind, cropped, impulse_responses>>
       ELSE LET cut == ListMax(tail_indices)
                crp == [k \in 1..Len(cropped) |-> CropTail(cropped[k], cut)]
            IN  /\ tail_ind' = cut
                /\ cropped' = crp
                /\ IF CanVstack([k \in 1..Len(crp) |-> crp[k].x])
                   THEN /\ impulse_responses' = Rows(crp)
                        /\ pc' = StageAfter("crop_tails", compensate_headphones)
                        /\ err' = err
                   ELSE /\ Fail("Vstack")
                        /\ UNCHANGED impulse_responses
    /\ Enter("crop_tails")
    /\ UNCHANGED <<fs, splitVars, left, right, speaker, rms, ir_len, fs_ts,
                   compensate_headphones, decay, loop_i, tail_indices, files>>
    /\ UNCHANGED par

\* the sampling rates a headphone recording may have; main does not compare
\* fs_hp with fs
HpRates == {1000, 1500}

\* lines 636-640: the stereo headphone recording, left sweep then right sweep,
\* is split as the speakers FL and FR; rows 0 and 3 are kept
headphone_tracks(rate, ms) ==
    LET r == split_recording(Layout(1, 2, PyInt(ms * rate, 1000)), SweepLen,
                             <<"FL", "FR">>, rate, ms)
    IN  IF r.err # "none" THEN r
        ELSE [err |-> "none", tracks |-> <<r.tracks[1], r.tracks[4]>>]

\* lines 634-681: the headphone recording is read and split; the filter of
\* each ear, 'Left' then 'Right', is convolved into the rows of that ear
CompensateHeadphones ==
    /\ pc = "compensate"
    /\ \E fs_hp \in HpRates :
          LET hp == headphone_tracks(fs_hp, silence_ms)
          IN  IF hp.err # "none"
              THEN Fail(hp.err) /\ UNCHANGED impulse_responses
              ELSE /\ impulse_responses' =
                        ApplyEq(ApplyEq(impulse_responses, "Left"), "Right")
                   /\ pc' = StageAfter("compensate", compensate_headphones)
                   /\ err' = err
    /\ Enter("compensate")
    /\ UNCHANGED <<fs, splitVars, cropVars, tailVars, fs_ts, compensate_headphones,
                   decay, loop_i, tail_indices, files>>
    /\ UNCHANGED par

\* line 684
WriteHrir ==
    /\ pc = "write_hrir"
    /\ files' = Append(files, [name |-> "hrir.wav", data |-> impulse_responses])
    /\ pc' = StageAfter("write_hrir", compensate_headphones)
    /\ Enter("write_hrir")
    /\ UNCHANGED <<err, fs, splitVars, cropVars, tailVars, fs_ts, compensate_headphones,
                   decay, loop_i, impulse_responses, tail_indices>>
    /\ UNCHANGED par

\* lines 686-690
WriteHesuvi ==
    /\ pc = "write_hesuvi"
    /\ files' = Append(files, [name |-> "hesuvi.wav",
                               data |-> HesuviRows(impulse_responses)])
    /\ pc' = StageAfter("write_hesuvi", compensate_headphones)
    /\ Enter("write_hesuvi")
    /\ UNCHANGED <<err, fs, splitVars, cropVars, tailVars, fs_ts, compensate_headphones,
                   decay, loop_i, impulse_responses, tail_indices>>
    /\ UNCHANGED par

Next ==
    \/ CheckRates
    \/ SplitRecording
    \/ ReorderTracks
    \/ NormalizeRecording
    \/ Deconvolve
    \/ CropHeads
    \/ TailIndices
    \/ CropTails
    \/ CompensateHeadphones
    \/ WriteHrir
    \/ WriteHesuvi

Spec == MainInit /\ [][Next]_vars

(***************************************************************************)
(* Claims about main                                                       *)
(***************************************************************************)
LastStage == IF stages = <<>> THEN "" ELSE stages[Len(stages)]

\* C6: after the tail-truncation step every one of the 14 channels, silent
\* ones included, has the same length, the maximum of the tail indices of the
\* non-silent channels; the step does not fail.
C6_CommonCutoff ==
    (LastStage = "crop_tails" /\ tail_indices # <<>>) =>
        /\ pc # "error"
        /\ tail_ind = ListMax(tail_indices)
        /\ Len(cropped) = 14
        /\ \A k \in 1..Len(cropped) : Len(cropped[k].x) = tail_ind

\* the number of ear pairs the head-cropping loop has passed
PairsDone == Len(cropped) \div 2

OneSilent(l, r) == RowSilent(tracks, l) # RowSilent(tracks, r)

BothSilent(l, r) == RowSilent(tracks, l) /\ RowSilent(tracks, r)

NoneSilent(l, r) == ~RowSilent(tracks, l) /\ ~RowSilent(tracks, r)

\* C7: in the head-cropping loop, a pair of deconvolved responses with exactly
\* one all-zero member ends the run with the pair error; a pair with both
\* members all-zero is passed on uncropped; a pair with both members non-zero
\* is given to crop_ir_head, whose result (the aligned pair, or its error) is
\* the result of the iteration.
C7_PairSilence ==
    (pc = "crop_heads" \/ LastStage \in {"crop_heads", "tail_index"}) =>
        \A p \in 0..6 :
            LET l == impulse_responses[2 * p + 1]
                r == impulse_responses[2 * p + 2]
                c == crop_ir_head(l, r, SPEAKER_NAMES[p + 1], fs)
            IN  /\ p < PairsDone =>
                      /\ ~OneSilent(l, r)
                      /\ BothSilent(l, r) =>
                            /\ cropped[2 * p + 1] = [x |-> l, fade |-> 0]
                            /\ cropped[2 * p + 2] = [x |-> r, fade |-> 0]
                      /\ NoneSilent(l, r) =>
                            /\ c.err = "none"
                            /\ cropped[2 * p + 1] = c.left
                            /\ cropped[2 * p + 2] = c.right
                /\ (p = PairsDone /\ pc = "error" /\ LastStage = "crop_heads") =>
                      /\ ~BothSilent(l, r)
                      /\ OneSilent(l, r) <=> err = "PairSilence"
                      /\ (NoneSilent(l, r) /\ tracks.den # 0) => err = c.err

\* FL was head-aligned, the undeclared FR passed on uncropped, and FC, with a
\* silent left ear and a recorded right ear, ended the run
C7_Witness ==
    /\ pc = "error" /\ err = "PairSilence"
    /\ PairsDone = 2
    /\ cropped[1].fade = 1 /\ ~IsSilent(cropped[1].x)
    /\ cropped[3] = [x |-> impulse_responses[3], fade |-> 0]
    /\ IsSilent(impulse_responses[5]) /\ ~IsSilent(impulse_responses[6])

IsPrefix(s, t) == Len(s) <= Len(t) /\ \A k \in 1..Len(s) : s[k] = t[k]

Export(hp) ==
    (IF hp THEN <<"compensate">> ELSE <<>>) \o <<"write_hrir", "write_hesuvi">>

\* the order of the stages as the claim has it: normalization after the tail
\* truncation
ClaimedOrder(hp) ==
    <<"split", "reorder", "deconv", "crop_heads", "tail_index", "crop_tails",
      "normalize">> \o Export(hp)

\* the order with the normalization of the recording before deconvolution
CodeOrder(hp) ==
    <<"split", "reorder", "normalize", "deconv", "crop_heads", "tail_index",
      "crop_tails">> \o Export(hp)

PastCompensation == pc \in {"write_hrir", "write_hesuvi", "done"}

\* C11: when headphone compensation is requested, every even-indexed channel
\* carries the left-ear filter and only it, every odd-indexed channel the
\* right-ear filter and only it, the samples being those the tail truncation
\* left; when it is not requested, the impulse-response set is the one the
\* tail truncation left, and this set is what hrir.wav receives.
C11_EarFilters ==
    /\ PastCompensation =>
          /\ Len(impulse_responses) = 14
          /\ \A k \in 1..Len(impulse_responses) :
                /\ impulse_responses[k].x = cropped[k].x
                /\ impulse_responses[k].fade = cropped[k].fade
                /\ impulse_responses[k].eq =
                      IF ~compensate_headphones THEN <<>>
                      ELSE IF (k - 1) % 2 = 0 THEN <<"Left">> ELSE <<"Right">>
    /\ \A f \in 1..Len(files) :
          files[f].name = "hrir.wav" => files[f].data = impulse_responses

C11_Witness ==
    /\ pc = "done"
    /\ compensate_headphones
    /\ speakers = <<"FR", "FL">>
    /\ impulse_responses[1].eq = <<"Left">>
    /\ impulse_responses[14].eq = <<"Right">>
    /\ ~IsSilent(impulse_responses[1].x)
    /\ files[3].name = "hrir.wav" /\ files[3].data[2].eq = <<"Right">>

C11_WitnessOff ==
    /\ pc = "done"
    /\ ~compensate_headphones
    /\ files[3].name = "hrir.wav" /\ files[3].data = Rows(cropped)

\* row k (1..14) of the canonical order belongs to a speaker that is not
\* declared
Undeclared(k) == \A j \in 1..Len(speakers) : speakers[j] # IR_ORDER[k - 1][1]

\* the rows of impulse_responses are the sample rows the deconvolution loop
\* appended (the tail truncation has not replaced them)
DeconvolvedRows ==
    \/ pc = "deconv" /\ loop_i > 0
    \/ pc \in {"crop_heads", "tail_index", "crop_tails"}
    \/ pc = "error" /\ LastStage \in {"crop_heads", "tail_index", "crop_tails"}

\* C12: with headphone compensation off, every channel of an undeclared
\* speaker is all-zero from reorder to the exported artifacts (as a track of
\* the recording, as a deconvolved response, as a cropped response and as a
\* row of hrir.wav), it is not given to deconv or to crop_ir_head, and a tail
\* index is computed for declared channels only.
C12_UndeclaredSilent ==
    ~compensate_headphones =>
        /\ \A k \in 1..14 : Undeclared(k) =>
              /\ Len(tracks.x) = 14 => RowSilent(tracks, tracks.x[k])
              /\ (DeconvolvedRows /\ k <= Len(impulse_responses)) =>
                    RowSilent(tracks, impulse_responses[k])
              /\ k <= Len(cropped) =>
                    IsSilent(cropped[k].x) /\ cropped[k].fade = 0
              /\ \A f \in 1..Len(files) :
                    files[f].name = "hrir.wav" =>
                        IsSilent(files[f].data[k].x) /\ files[f].data[k].fade = 0
        /\ Len(tail_indices) <= 2 * Len(speakers)

Written(name) == \E f \in 1..Len(files) : files[f].name = name

\* the faults the run signals for its inputs
NamedFaults == {"RateMismatch", "SilenceLength", "LeftRightOrder", "PairSilence"}

\* a raised exception has ended the run: no export artifact exists, and the
\* stage history ends at the stage that raised
Aborted ==
    /\ pc = "error"
    /\ ~Written("hrir.wav") /\ ~Written("hesuvi.wav")
    /\ err = "RateMismatch" => stages = <<>> /\ files = <<>>
    /\ err \in {"LeftRightOrder", "PairSilence"} =>
          /\ LastStage = "crop_heads"
          /\ Len(files) = 2

\* C13: once a fault is signalled in main (the four named ones, and any other
\* exception) the run is over: it takes no further step, and neither hrir.wav
\* nor hesuvi.wav is written.
C13_FaultAborts ==
    /\ [](err # "none" => Aborted)
    /\ [][err = "none"]_vars

\* the run stopped in the head-cropping loop on a right-side speaker whose
\* left ear is first, after preprocessed.wav and responses.wav were written
C13_Witness ==
    /\ pc = "error" /\ err = "LeftRightOrder"
    /\ speakers = <<"FR">>
    /\ Written("preprocessed.wav") /\ Written("responses.wav")
    /\ ~Written("hrir.wav")
    /\ LastStage = "crop_heads"

C13_WitnessRate == pc = "error" /\ err = "RateMismatch" /\ fs_ts # fs

C13_WitnessSilence ==
    pc = "error" /\ err = "SilenceLength" /\ fs = 1500 /\ LastStage = "split"

C13_WitnessPair == pc = "error" /\ err = "PairSilence" /\ Len(files) = 2

(***************************************************************************)
(* The channel-wise stages of main as one function of the normalized       *)
(* recording: lines 549-615 executed in the order of the source.           *)
(***************************************************************************)
\* lines 551-567: the rows of impulse_responses
SeqResponses(a) == [k \in 1..Len(a.x) |-> DeconvTrack(a, a.x[k])]

\* lines 575-597: the result of the iteration for pair p
SeqPair(a, rate, p) ==
    CropPair(a, SeqResponses(a)[2 * p + 1], SeqResponses(a)[2 * p + 2],
             SPEAKER_NAMES[p + 1], rate)

\* the indices of the non-silent tracks, in the order of the loop at line 602
NonSilent(crp) == SelectSeq([c \in 1..Len(crp) |-> c], LAMBDA c : ~IsSilent(crp[c].x))

\* lines 549-615: [err, rows]
SeqMain(a, rate, k) ==
    LET n_pairs == Len(a.x) \div 2
        bad == {p \in 0..(n_pairs - 1) : SeqPair(a, rate, p).err # "none"}
    IN  IF bad # {}
        THEN [err |-> SeqPair(a, rate, CHOOSE p \in bad : \A q \in bad : p <= q).err,
              rows |-> <<>>]
        ELSE
        LET crp == [c \in 1..(2 * n_pairs) |->
                       IF (c - 1) % 2 = 0 THEN SeqPair(a, rate, (c - 1) \div 2).left
                       ELSE SeqPair(a, rate, (c - 1) \div 2).right]
            live == NonSilent(crp)
            tails == [j \in 1..Len(live) |-> TailOf(crp[live[j]], rate, k)]
            failed == {j \in 1..Len(live) : tails[j].err # "none"}
        IN  IF failed # {}
            THEN [err |-> tails[CHOOSE j \in failed : \A q \in failed : j <= q].err,
                  rows |-> <<>>]
            ELSE IF live = <<>> THEN [err |-> "EmptyMax", rows |-> <<>>]
            ELSE
            LET cut == ListMax([j \in 1..Len(live) |-> tails[j].tail_ind])
                cut_rows == [c \in 1..Len(crp) |-> CropTail(crp[c], cut)]
            IN  IF CanVstack([c \in 1..Len(cut_rows) |-> cut_rows[c].x])
                THEN [err |-> "none", rows |-> Rows(cut_rows)]
                ELSE [err |-> "Vstack", rows |-> <<>>]

\* SeqMain is what the actions of main compute, step by step
SeqMainIsMain ==
    LET s == SeqMain(tracks, fs, decay)
    IN  /\ (pc = "compensate" \/ (pc = "write_hrir" /\ ~compensate_headphones)) =>
              s.err = "none" /\ impulse_responses = s.rows
        /\ (pc = "error" /\ LastStage \in {"crop_heads", "tail_index", "crop_tails"}) =>
              s.err = err

(***************************************************************************)
(* The channel-wise stages in any order.  A unit of work is the            *)
(* deconvolution of one channel (lines 552-566), the head cropping of one  *)
(* pair (lines 577-596) or the tail index of one channel (lines 603-610);  *)
(* a unit may run as soon as the units whose results it reads have run.    *)
(* The units of the first ParPairs speakers, the ones the inputs declare,  *)
(* interleave freely; those of the other speakers run as one batch per     *)
(* stage, at any moment.  The run reaches line 549 by the actions of main,  *)
(* and when all units have run, the common cut of lines 611-615 is taken   *)
(* by the action CropTails of main.                                        *)
(***************************************************************************)
ParPairs == 2

ParChannels == 1..(2 * ParPairs)

RestChannels == (2 * ParPairs + 1)..14

RestPairs == ParPairs..6

\* the declared speakers: the first ParPairs names, last first
ParSpeakers == [j \in 1..ParPairs |-> SPEAKER_NAMES[ParPairs + 1 - j]]

\* main is at line 531; the lists of the channel-wise stages have a slot for
\* every channel
ParInit ==
    /\ pc = "split"
    /\ err = "none"
    /\ speakers = ParSpeakers
    /\ silence_ms = 1
    /\ fs = 1000
    /\ fs_ts = fs
    /\ compensate_headphones = FALSE
    /\ decay = MaxDecay - 1
    /\ LET silence == PyInt(silence_ms * fs, 1000)
           len == SweepLen + silence
       IN  \E shape \in [1..Len(speakers) -> PairShapes(len)] :
              recording = LayoutOf(LAMBDA j, e : MainSegment(shape[j][e + 1], len),
                                   1, Len(speakers), silence)
    /\ tracks = Raw(<<>>)
    /\ loop_i = 0
    /\ impulse_responses = [k \in 1..14 |-> <<>>]
    /\ cropped = [k \in 1..14 |-> Faded(<<>>, 0)]
    /\ tail_indices = <<>>
    /\ tail_ind = 0
    /\ files = <<>>
    /\ stages = <<>>
    /\ left = <<>> /\ right = <<>> /\ speaker = ""
    /\ rms = <<>> /\ ir_len = 0
    /\ IdlePar

\* lines 552-566 for channel k
ParDeconv ==
    /\ pc = "deconv"
    /\ \E k \in ParChannels \ par.deconv :
          /\ impulse_responses' =
                [impulse_responses EXCEPT ![k] = DeconvTrack(tracks, tracks.x[k])]
          /\ par' = [par EXCEPT !.deconv = @ \cup {k}]
    /\ UNCHANGED <<pc, err, fs, splitVars, cropVars, tailVars, fs_ts,
                   compensate_headphones, decay, loop_i, tail_indices, files, stages>>

RestDeconv ==
    /\ pc = "deconv"
    /\ RestChannels \cap par.deconv = {}
    /\ impulse_responses' =
          [k \in 1..14 |-> IF k \in RestChannels THEN DeconvTrack(tracks, tracks.x[k])
                           ELSE impulse_responses[k]]
    /\ par' = [par EXCEPT !.deconv = @ \cup RestChannels]
    /\ UNCHANGED <<pc, err, fs, splitVars, cropVars, tailVars, fs_ts,
                   compensate_headphones, decay, loop_i, tail_indices, files, stages>>

ParPairResult(p) ==
    CropPair(tracks, impulse_responses[2 * p + 1], impulse_responses[2 * p + 2],
             SPEAKER_NAMES[p + 1], fs)

\* lines 577-596 for pair p
ParCropHead ==
    /\ pc = "deconv"
    /\ \E p \in (0..(ParPairs - 1)) \ par.heads :
          /\ {2 * p + 1, 2 * p + 2} \subseteq par.deconv
          /\ LET r == ParPairResult(p)
             IN  IF r.err # "none"
                 THEN Fail(r.err) /\ UNCHANGED <<cropped, par>>
                 ELSE /\ cropped' = [cropped EXCEPT ![2 * p + 1] = r.left,
                                                    ![2 * p + 2] = r.right]
                      /\ par' = [par EXCEPT !.heads = @ \cup {p}]
                      /\ UNCHANGED <<pc, err>>
    /\ UNCHANGED <<fs, splitVars, left, right, speaker, tailVars, fs_ts,
                   compensate_headphones, decay, loop_i, impulse_responses,
                   tail_indices, files, stages>>

RestCropHeads ==
    /\ pc = "deconv"
    /\ RestPairs \cap par.heads = {}
    /\ RestChannels \subseteq par.deconv
    /\ LET bad == {p \in RestPairs : ParPairResult(p).err # "none"}
       IN  IF bad # {}
           THEN /\ Fail(ParPairResult(CHOOSE p \in bad : \A q \in bad : p <= q).err)
                /\ UNCHANGED <<cropped, par>>
           ELSE /\ cropped' =
                      [c \in 1..14 |->
                          IF c \notin RestChannels THEN cropped[c]
                          ELSE IF (c - 1) % 2 = 0 THEN ParPairResult((c - 1) \div 2).left
                          ELSE ParPairResult((c - 1) \div 2).right]
                /\ par' = [par EXCEPT !.heads = @ \cup RestPairs]
                /\ UNCHANGED <<pc, err>>
    /\ UNCHANGED <<fs, splitVars, left, right, speaker, tailVars, fs_ts,
                   compensate_headphones, decay, loop_i, impulse_responses,
                   tail_indices, files, stages>>

\* lines 603-610 for channel k; the index is appended when it is found
ParTail ==
    /\ pc = "deconv"
    /\ \E k \in ParChannels \ par.tails :
          /\ (k - 1) \div 2 \in par.heads
          /\ IF IsSilent(cropped[k].x)
             THEN /\ par' = [par EXCEPT !.tails = @ \cup {k}]
                  /\ UNCHANGED <<pc, err, tail_indices>>
             ELSE LET r == TailOf(cropped[k], fs, decay)
                  IN  IF r.err # "none"
                      THEN Fail(r.err) /\ UNCHANGED <<tail_indices, par>>
                      ELSE /\ tail_indices' = Append(tail_indices, r.tail_ind)
                           /\ par' = [par EXCEPT !.tails = @ \cup {k}]
                           /\ UNCHANGED <<pc, err>>
    /\ UNCHANGED <<fs, splitVars, cropVars, tailVars, fs_ts, compensate_headphones,
                   decay, loop_i, impulse_responses, files, stages>>

RestTails ==
    /\ pc = "deconv"
    /\ RestChannels \cap par.tails = {}
    /\ RestPairs \subseteq par.heads
    /\ LET live == SelectSeq([j \in 1..(14 - 2 * ParPairs) |-> 2 * ParPairs + j],
                             LAMBDA c : ~IsSilent(cropped[c].x))
           tails == [j \in 1..Len(live) |-> TailOf(cropped[live[j]], fs, decay)]
           failed == {j \in 1..Len(live) : tails[j].err # "none"}
       IN  IF failed # {}
           THEN /\ Fail(tails[CHOOSE j \in failed : \A q \in failed : j <= q].err)
                /\ UNCHANGED <<tail_indices, par>>
           ELSE /\ tail_indices' =
                      tail_indices \o [j \in 1..Len(live) |-> tails[j].tail_ind]
                /\ par' = [par EXCEPT !.tails = @ \cup RestChannels]
                /\ UNCHANGED <<pc, err>>
    /\ UNCHANGED <<fs, splitVars, cropVars, tailVars, fs_ts, compensate_headphones,
                   decay, loop_i, impulse_responses, files, stages>>

\* every unit has run: the run is at line 611
ParJoin ==
    /\ pc = "deconv"
    /\ par.tails = 1..14
    /\ pc' = "crop_tails"
    /\ UNCHANGED <<err, fs, splitVars, cropVars, tailVars, mainVars, stages, par>>

ParNext ==
    \/ SplitRecording
    \/ ReorderTracks
    \/ NormalizeRecording
    \/ ParDeconv
    \/ RestDeconv
    \/ ParCropHead
    \/ RestCropHeads
    \/ ParTail
    \/ RestTails
    \/ ParJoin
    \/ CropTails

SpecPar == ParInit /\ [][ParNext]_vars

\* C14: the channel-wise stages do not depend on one another's results: in
\* whatever order and interleaving the channels are deconvolved, the pairs
\* head-cropped and the tail indices found, every finished unit has the
\* result it has in the order of main, and the set the common cut produces is
\* the set main produces; the run fails only if main fails.
C14_OrderIndependent ==
    LET s == SeqMain(tracks, fs, decay)
    IN  /\ pc = "deconv" =>
              /\ \A k \in par.deconv : impulse_responses[k] = SeqResponses(tracks)[k]
              /\ \A p \in par.heads :
                    /\ cropped[2 * p + 1] = SeqPair(tracks, fs, p).left
                    /\ cropped[2 * p + 2] = SeqPair(tracks, fs, p).right
        /\ pc = "write_hrir" => s.err = "none" /\ impulse_responses = s.rows
        /\ pc = "error" => s.err # "none"

\* the tail indices were found in another order than that of main (a short
\* channel's before a long one's), and the common cut gave the set of main
C14_Witness ==
    /\ pc = "write_hrir"
    /\ par.tails = 1..14
    /\ Len(tail_indices) = 4
    /\ tail_indices[1] < tail_indices[4]
    /\ tail_ind = tail_indices[4]
    /\ ~IsSilent(impulse_responses[1].x)
    /\ impulse_responses = SeqMain(tracks, fs, decay).rows

====
